---- MODULE Spec2Model ----
(***************************************************************************)
(* State-machine model of src/src/App.js: the React component App, its     *)
(* useState cells, its three HTTP calls (GET eventos, POST eventos, POST   *)
(* comentarios) and the values it derives at every render (filteredEvents, *)
(* sortedEvents, calculateAverageRating).                                  *)
(*                                                                         *)
(* Four specifications share the state and the actions and differ in what  *)
(* the API answers and in what the user does:                              *)
(*   Spec        the application: events and comments are created          *)
(*   SpecSearch  the fetched events vary in their names, the user types    *)
(*               search terms and picks dates                              *)
(*   SpecDates   the fetched events vary in their dates, the user picks    *)
(*               dates                                                     *)
(*   SpecRating  the fetched event varies in its comments                  *)
(* Of an event the model keeps id, nome, data and comentarios, of the      *)
(* create-event draft nome, of a comment and of the create-comment draft   *)
(* comentario and classificacao; the remaining fields (duracao_qtd,        *)
(* duracao_tipo, nome_usuario) are entered, sent and stored the same way   *)
(* and no derived value reads them.                                        *)
(*                                                                         *)
(* JavaScript values are represented as follows.                           *)
(*   null              the record Null                                     *)
(*   undefined         a property that is undefined is absent from the     *)
(*                     record (not in its DOMAIN)                          *)
(*   a string          the sequence of its characters ("" is << >>)        *)
(*   an id, a message  a record [id |-> n], [message |-> text] (TLC can    *)
(*                     compare it with the record Null)                    *)
(*   an ISO date       << day, tod >>: the calendar day counted from       *)
(*                     1970-01-01 and the time of day in ticks; a string   *)
(*                     without a time part has tod = 0                     *)
(*   an array          a sequence; an object, a record                     *)
(* Times are local times of a zone without offset to UTC.                  *)
(***************************************************************************)
EXTENDS Integers, Sequences, FiniteSets, TLC

VARIABLES
    events,              \* useState([])            App.js:7
    selectedEvent,       \* useState(null)          App.js:8
    loading,             \* useState(true)          App.js:9
    error,               \* useState(null)          App.js:10
    expandedEventId,     \* useState(null)          App.js:11
    searchTerm,          \* useState('')            App.js:12
    dateFilter,          \* useState('')            App.js:13
    showNewEventForm,    \* useState(false)         App.js:14
    showNewCommentForm,  \* useState(null)          App.js:15
    newEvent,            \* the create-event draft  App.js:18
    newComment,          \* the create-comment draft App.js:25
    inflight,            \* the requests awaiting their response, each with
                         \* the values its handler closed over
    server,              \* the API: the events and comments it holds (their
                         \* ids are 1, 2, ...) and the POSTs it has received
    last                 \* the request that completed last, and the state its
                         \* handler ran from (history, read by the properties)

vars == << events, selectedEvent, loading, error, expandedEventId, searchTerm,
           dateFilter, showNewEventForm, showNewCommentForm, newEvent,
           newComment, inflight, server, last >>

-----------------------------------------------------------------------------
(* Bounds *)

MaxNameLen == 2      \* longest event name and search term
MaxViewEvents == 2   \* longest fetched list in the search run
MaxSortEvents == 3   \* longest fetched list in the date run
MaxDay == 1          \* event days range over -MaxDay..MaxDay
TicksPerDay == 2     \* times of day range over 0..TicksPerDay-1
MaxComments == 3     \* longest fetched comment sequence in the rating run
MaxFetched == 1      \* longest fetched list in the application run
MaxPosts == 2        \* POST requests sent in the application run

MaxRating == 5       \* <input type="range" max="5">   App.js:435
DefaultRating == 3   \* classificacao: 3               App.js:28

-----------------------------------------------------------------------------
(* Values *)

Null == [null |-> TRUE]
EmptyString == << >>

Id(n) == [id |-> n]

Chars == {"a", "A", "b"}

\* o.f is present (reading an absent property gives undefined)
Has(o, f) == f \in DOMAIN o

\* {...o, f: v}
Spread(o, f, v) == [k \in (DOMAIN o) \cup {f} |-> IF k = f THEN v ELSE o[k]]

\* o.f as a condition, f holding a string: absent and '' are falsy
TruthyString(o, f) == Has(o, f) /\ o[f] # EmptyString

\* o.comentarios || []  (an array is truthy, the empty one included)
comentariosOrEmpty(o) == IF Has(o, "comentarios") THEN o.comentarios ELSE << >>

\* com.classificacao || 0
classificacaoOrZero(com) ==
    IF Has(com, "classificacao") /\ com.classificacao # 0
    THEN com.classificacao ELSE 0

\* String.prototype.toLowerCase, character by character
LowerChar(c) == IF c = "A" THEN "a" ELSE IF c = "B" THEN "b" ELSE c

toLowerCase(s) == [i \in 1..Len(s) |-> LowerChar(s[i])]

\* String.prototype.includes: t occurs in s as a contiguous substring
includes(s, t) ==
    \E off \in 0..(Len(s) - Len(t)) : SubSeq(s, off + 1, off + Len(t)) = t

\* date-fns parseISO, as the instant (getTime) of the date it returns
parseISO(d) == d[1] * TicksPerDay + d[2]

\* date-fns isEqual: the two instants are the same
isEqual(t1, t2) == t1 = t2

-----------------------------------------------------------------------------
(* The values derived at every render *)

\* matchesSearch with the search term compared as typed
matchesSearch_TermAsTyped(event, term) ==
    \/ term = EmptyString
    \/ /\ TruthyString(event, "nome")
       /\ includes(toLowerCase(event.nome), term)

\* App.js:72-75
matchesSearch(event, term) ==
    \/ term = EmptyString
    \/ /\ TruthyString(event, "nome")
       /\ includes(toLowerCase(event.nome), toLowerCase(term))

\* App.js:77-87; the branch of line 84 is never taken
matchesDateRange(event, filter) ==
    IF TruthyString(event, "data")
    THEN IF filter # EmptyString
         THEN isEqual(parseISO(event.data), parseISO(filter))
         ELSE TRUE
    ELSE TRUE

\* App.js:70-89
filterEvents(evs, term, filter) ==
    SelectSeq(evs, LAMBDA event :
        matchesSearch(event, term) /\ matchesDateRange(event, filter))

\* App.js:93-94: a.data ? new Date(a.data) : 0, as a number
sortDate(a) == IF TruthyString(a, "data") THEN parseISO(a.data) ELSE 0

\* App.js:95: the comparator, negative when a goes before b
compareEvents(a, b) == sortDate(b) - sortDate(a)

\* Array.prototype.sort with a comparator is a stable sort: x goes after the
\* last element that does not have to follow it
RECURSIVE insertSorted(_, _)
insertSorted(sorted, x) ==
    IF sorted = << >> THEN << x >>
    ELSE IF compareEvents(sorted[Len(sorted)], x) > 0
         THEN Append(insertSorted(SubSeq(sorted, 1, Len(sorted) - 1), x),
                     sorted[Len(sorted)])
         ELSE Append(sorted, x)

RECURSIVE sortEvents(_)
sortEvents(evs) ==
    IF evs = << >> THEN << >>
    ELSE insertSorted(sortEvents(SubSeq(evs, 1, Len(evs) - 1)), evs[Len(evs)])

filteredEvents == filterEvents(events, searchTerm, dateFilter)

\* App.js:92-96
sortedEvents == sortEvents(filteredEvents)

\* App.js:199-200: reduce((acc, com) => acc + (com.classificacao || 0), 0)
RECURSIVE sumRatings(_)
sumRatings(coms) ==
    IF coms = << >> THEN 0
    ELSE sumRatings(SubSeq(coms, 1, Len(coms) - 1))
         + classificacaoOrZero(coms[Len(coms)])

Digits == << "0", "1", "2", "3", "4", "5", "6", "7", "8", "9" >>

\* toFixed1 cutting the further digits off instead of rounding
toFixed1_Truncated(num, den) ==
    LET tenths == (10 * num) \div den
    IN  << Digits[(tenths \div 10) + 1], ".", Digits[(tenths % 10) + 1] >>

\* Number.prototype.toFixed(1) of num/den >= 0: the decimal with one fraction
\* digit nearest to the quotient, the larger one on a tie (below ten)
toFixed1(num, den) ==
    LET tenths == (2 * 10 * num + den) \div (2 * den)
    IN  << Digits[(tenths \div 10) + 1], ".", Digits[(tenths % 10) + 1] >>

NotAvailable == << "N", "/", "A" >>

\* App.js:193-203
calculateAverageRating(event) ==
    IF event = Null \/ ~Has(event, "comentarios") \/ Len(event.comentarios) = 0
    THEN NotAvailable
    ELSE toFixed1(sumRatings(event.comentarios), Len(event.comentarios))

-----------------------------------------------------------------------------
(* The state after the first render and its effect (App.js:7-29, 34-61) *)

emptyNewEvent ==
    [nome |-> EmptyString]

emptyNewComment ==
    [comentario |-> EmptyString, classificacao |-> [num |-> DefaultRating]]

GetEventos == [kind |-> "GET eventos"]

Init ==
    /\ events = << >>
    /\ selectedEvent = Null
    /\ loading = TRUE
    /\ error = Null
    /\ expandedEventId = Null
    /\ searchTerm = EmptyString
    /\ dateFilter = EmptyString
    /\ showNewEventForm = FALSE
    /\ showNewCommentForm = Null
    /\ newEvent = emptyNewEvent
    /\ newComment = emptyNewComment
    /\ inflight = << GetEventos >>
    /\ server = [events |-> 0, comments |-> 0, posts |-> 0]
    /\ last = [op |-> "none"]

\* App.js:189-190: what the component renders
View == IF loading THEN "loading" ELSE IF error # Null THEN "error" ELSE "main"

\* the rows of the table (App.js:332)
Rows == {sortedEvents[i] : i \in DOMAIN sortedEvents}

\* App.js:357, 402: the comment modal of a row is rendered
CommentModal(event) ==
    /\ event \in Rows
    /\ expandedEventId = event.id
    /\ showNewCommentForm = event.id

\* A modal covers the whole page (fixed inset-0, App.js:219 and 403): the
\* controls under it cannot be clicked while it is rendered
Covered == showNewEventForm \/ \E event \in Rows : CommentModal(event)

Remove(seq, i) == SubSeq(seq, 1, i - 1) \o SubSeq(seq, i + 1, Len(seq))

-----------------------------------------------------------------------------
(* The messages of the errors the three calls can end with *)

FailedToFetchEvents == [message |-> "Failed to fetch events"]     \* App.js:42
FailedToCreateEvent == [message |-> "Failed to create event"]     \* App.js:110
\* the message of a failed POST comentarios copied from the handler above it
FailedToCreateComment_Copied == [message |-> "Failed to create event"]

FailedToCreateComment == [message |-> "Failed to create comment"] \* App.js:152
\* fetch() or response.json() rejects: the message of the exception, here
\* the one of the TypeError of a fetch without connection
NetworkError == [message |-> "Failed to fetch"]

Thrown(notOk) == {notOk, NetworkError}

-----------------------------------------------------------------------------
(* fetchData (App.js:35-58) *)

\* withComentarios keeping the event as it was received
withComentarios_AsReceived(event) == event

\* App.js:47-50 and 115-118: {...event, comentarios: event.comentarios || []}
withComentarios(event) == Spread(event, "comentarios", comentariosOrEmpty(event))

RECURSIVE countComments(_)
countComments(evs) ==
    IF evs = << >> THEN 0
    ELSE countComments(SubSeq(evs, 1, Len(evs) - 1))
         + Len(comentariosOrEmpty(evs[Len(evs)]))

\* App.js:40-53: the GET answers 2xx with the array eventsData
fetchDataResolved(payloads) ==
    \E i \in DOMAIN inflight, eventsData \in payloads :
        /\ inflight[i].kind = "GET eventos"
        /\ events' = [j \in DOMAIN eventsData |-> withComentarios(eventsData[j])]
        /\ loading' = FALSE
        /\ inflight' = Remove(inflight, i)
        /\ server' = [server EXCEPT !.events = Len(eventsData),
                                     !.comments = countComments(eventsData)]
        /\ last' = [op |-> "fetchData", ok |-> TRUE, req |-> inflight[i],
                    eventsData |-> eventsData]
        /\ UNCHANGED << selectedEvent, error, expandedEventId, searchTerm,
                        dateFilter, showNewEventForm, showNewCommentForm,
                        newEvent, newComment >>

\* fetchDataCatch without its setLoading(false)
fetchDataCatch_StillLoading ==
    \E i \in DOMAIN inflight, message \in Thrown(FailedToFetchEvents) :
        /\ inflight[i].kind = "GET eventos"
        /\ error' = message
        /\ inflight' = Remove(inflight, i)
        /\ last' = [op |-> "fetchData", ok |-> FALSE, req |-> inflight[i]]
        /\ UNCHANGED << events, selectedEvent, loading, expandedEventId,
                        searchTerm, dateFilter, showNewEventForm,
                        showNewCommentForm, newEvent, newComment, server >>

\* App.js:41-43, 54-57: the GET answers non-2xx, or fetch or json() rejects
fetchDataCatch ==
    \E i \in DOMAIN inflight, message \in Thrown(FailedToFetchEvents) :
        /\ inflight[i].kind = "GET eventos"
        /\ error' = message
        /\ loading' = FALSE
        /\ inflight' = Remove(inflight, i)
        /\ last' = [op |-> "fetchData", ok |-> FALSE, req |-> inflight[i]]
        /\ UNCHANGED << events, selectedEvent, expandedEventId, searchTerm,
                        dateFilter, showNewEventForm, showNewCommentForm,
                        newEvent, newComment, server >>

-----------------------------------------------------------------------------
(* The filters and the table (App.js:64-67, 302, 312) *)

Strings(alphabet, n) == UNION {[1..k -> alphabet] : k \in 0..n}

\* <input type="date"> gives '' or a date without a time part
DateInputs == {EmptyString} \cup {<< d, 0 >> : d \in (0 - MaxDay)..MaxDay}

Ui == [op |-> "ui"]

\* App.js:302
setSearchTerm(values) ==
    \E value \in values :
        /\ View = "main" /\ ~Covered
        /\ searchTerm' = value
        /\ last' = Ui
        /\ UNCHANGED << events, selectedEvent, loading, error, expandedEventId,
                        dateFilter, showNewEventForm, showNewCommentForm,
                        newEvent, newComment, inflight, server >>

\* App.js:312
setDateFilter(values) ==
    \E value \in values :
        /\ View = "main" /\ ~Covered
        /\ dateFilter' = value
        /\ last' = Ui
        /\ UNCHANGED << events, selectedEvent, loading, error, expandedEventId,
                        searchTerm, showNewEventForm, showNewCommentForm,
                        newEvent, newComment, inflight, server >>

\* App.js:64-67, from the button of a row (App.js:348)
toggleEvent ==
    \E event \in Rows :
        /\ View = "main" /\ ~Covered
        /\ expandedEventId' = IF expandedEventId = event.id THEN Null ELSE event.id
        /\ selectedEvent' = event
        /\ last' = Ui
        /\ UNCHANGED << events, loading, error, searchTerm, dateFilter,
                        showNewEventForm, showNewCommentForm, newEvent,
                        newComment, inflight, server >>

-----------------------------------------------------------------------------
(* The create-event form (App.js:98-131, 211, 218-292) *)

\* what the user enters in the fields of the form
NewEventInputs ==
    [nome |-> {<< "a" >>}]

\* the create-event form is rendered and no other modal lies over it
EventFormOnTop ==
    /\ View = "main"
    /\ showNewEventForm
    /\ ~\E event \in Rows : CommentModal(event)

\* App.js:211
openNewEventForm ==
    /\ View = "main" /\ ~Covered
    /\ showNewEventForm' = TRUE
    /\ last' = Ui
    /\ UNCHANGED << events, selectedEvent, loading, error, expandedEventId,
                    searchTerm, dateFilter, showNewCommentForm, newEvent,
                    newComment, inflight, server >>

\* App.js:277
cancelNewEventForm ==
    /\ EventFormOnTop
    /\ showNewEventForm' = FALSE
    /\ last' = Ui
    /\ UNCHANGED << events, selectedEvent, loading, error, expandedEventId,
                    searchTerm, dateFilter, showNewCommentForm, newEvent,
                    newComment, inflight, server >>

\* App.js:229, 240, 253, 262: setNewEvent({...newEvent, field: value})
setNewEvent ==
    \E field \in DOMAIN NewEventInputs :
        \E value \in NewEventInputs[field] :
            /\ EventFormOnTop
            /\ newEvent' = Spread(newEvent, field, value)
            /\ last' = Ui
            /\ UNCHANGED << events, selectedEvent, loading, error,
                            expandedEventId, searchTerm, dateFilter,
                            showNewEventForm, showNewCommentForm, newComment,
                            inflight, server >>

\* App.js:98-107: the form is submitted (its required fields are filled,
\* App.js:227, 238, 250) and the POST is sent; the rest of the handler runs
\* when the answer arrives, with the events of the render that submitted
handleSubmitNewEvent ==
    /\ EventFormOnTop
    /\ newEvent.nome # EmptyString
    /\ server.posts < MaxPosts
    /\ server' = [server EXCEPT !.posts = @ + 1]
    /\ inflight' = Append(inflight,
           [kind |-> "POST eventos", body |-> newEvent, events |-> events])
    /\ last' = Ui
    /\ UNCHANGED << events, selectedEvent, loading, error, expandedEventId,
                    searchTerm, dateFilter, showNewEventForm,
                    showNewCommentForm, newEvent, newComment >>

\* App.js:120: [...events, eventWithComments]
appendEvent(evs, createdEvent) == Append(evs, withComentarios(createdEvent))

\* App.js:109-127: the POST answers 2xx with the created event, its
\* comentarios present or not
handleSubmitNewEventResolved ==
    \E i \in DOMAIN inflight, comentarios \in BOOLEAN :
        LET req == inflight[i]
            stored == Spread(req.body, "id", Id(server.events + 1))
            createdEvent == IF comentarios
                            THEN Spread(stored, "comentarios", << >>)
                            ELSE stored
        IN  /\ req.kind = "POST eventos"
            /\ events' = appendEvent(req.events, createdEvent)
            /\ showNewEventForm' = FALSE
            /\ newEvent' = emptyNewEvent
            /\ inflight' = Remove(inflight, i)
            /\ server' = [server EXCEPT !.events = @ + 1]
            /\ last' = [op |-> "handleSubmitNewEvent", ok |-> TRUE, req |-> req,
                        created |-> createdEvent]
            /\ UNCHANGED << selectedEvent, loading, error, expandedEventId,
                            searchTerm, dateFilter, showNewCommentForm,
                            newComment >>

\* a catch that also runs the setShowNewEventForm(false) of the try block
handleSubmitNewEventCatch_ClosesForm ==
    \E i \in DOMAIN inflight, message \in Thrown(FailedToCreateEvent) :
        /\ inflight[i].kind = "POST eventos"
        /\ error' = message
        /\ showNewEventForm' = FALSE
        /\ inflight' = Remove(inflight, i)
        /\ last' = [op |-> "handleSubmitNewEvent", ok |-> FALSE,
                    req |-> inflight[i]]
        /\ UNCHANGED << events, selectedEvent, loading, expandedEventId,
                        searchTerm, dateFilter, showNewCommentForm, newEvent,
                        newComment, server >>

\* App.js:109-111, 128-130
handleSubmitNewEventCatch ==
    \E i \in DOMAIN inflight, message \in Thrown(FailedToCreateEvent) :
        /\ inflight[i].kind = "POST eventos"
        /\ error' = message
        /\ inflight' = Remove(inflight, i)
        /\ last' = [op |-> "handleSubmitNewEvent", ok |-> FALSE,
                    req |-> inflight[i]]
        /\ UNCHANGED << events, selectedEvent, loading, expandedEventId,
                        searchTerm, dateFilter, showNewEventForm,
                        showNewCommentForm, newEvent, newComment, server >>

-----------------------------------------------------------------------------
(* The create-comment form (App.js:134-187, 391, 402-466) *)

NewCommentInputs ==
    [comentario |-> {<< "b" >>},
     classificacao |-> {[str |-> << Digits[MaxRating + 1] >>]}]

\* Number(v) of a number or of a string of one digit
Number(v) ==
    IF Has(v, "num") THEN v.num
    ELSE CHOOSE n \in 0..9 : Digits[n + 1] = v.str[1]

\* App.js:391
openNewCommentForm ==
    \E event \in Rows :
        /\ View = "main" /\ ~Covered
        /\ expandedEventId = event.id
        /\ showNewCommentForm' = event.id
        /\ last' = Ui
        /\ UNCHANGED << events, selectedEvent, loading, error, expandedEventId,
                        searchTerm, dateFilter, showNewEventForm, newEvent,
                        newComment, inflight, server >>

\* App.js:451
cancelNewCommentForm ==
    \E event \in Rows :
        /\ View = "main" /\ CommentModal(event)
        /\ showNewCommentForm' = Null
        /\ last' = Ui
        /\ UNCHANGED << events, selectedEvent, loading, error, expandedEventId,
                        searchTerm, dateFilter, showNewEventForm, newEvent,
                        newComment, inflight, server >>

\* App.js:412, 423, 438: setNewComment({...newComment, field: value})
setNewComment ==
    \E event \in Rows, field \in DOMAIN NewCommentInputs :
        \E value \in NewCommentInputs[field] :
            /\ View = "main" /\ CommentModal(event)
            /\ newComment' = Spread(newComment, field, value)
            /\ last' = Ui
            /\ UNCHANGED << events, selectedEvent, loading, error,
                            expandedEventId, searchTerm, dateFilter,
                            showNewEventForm, showNewCommentForm, newEvent,
                            inflight, server >>

\* App.js:134-149: the form of a row is submitted (its required field is
\* filled, App.js:421) and the POST is sent; the rest of the handler runs when
\* the answer arrives, with the events and the selectedEvent of the render
\* that submitted
handleSubmitNewComment ==
    \E event \in Rows :
        LET commentData ==
                Spread(Spread(newComment, "id_evento", event.id),
                       "classificacao", Number(newComment.classificacao))
        IN  /\ View = "main" /\ CommentModal(event)
            /\ newComment.comentario # EmptyString
            /\ server.posts < MaxPosts
            /\ server' = [server EXCEPT !.posts = @ + 1]
            /\ inflight' = Append(inflight,
                   [kind |-> "POST comentarios", body |-> commentData,
                    eventId |-> event.id, events |-> events,
                    selectedEvent |-> selectedEvent])
            /\ last' = Ui
            /\ UNCHANGED << events, selectedEvent, loading, error,
                            expandedEventId, searchTerm, dateFilter,
                            showNewEventForm, showNewCommentForm, newEvent,
                            newComment >>

\* appendComment without the test of the id
appendComment_EveryEvent(evs, eventId, createdComment) ==
    [j \in DOMAIN evs |->
        Spread(evs[j], "comentarios",
               Append(comentariosOrEmpty(evs[j]), createdComment))]

\* App.js:158-166
appendComment(evs, eventId, createdComment) ==
    [j \in DOMAIN evs |->
        IF evs[j].id = eventId
        THEN Spread(evs[j], "comentarios",
                    Append(comentariosOrEmpty(evs[j]), createdComment))
        ELSE evs[j]]

\* App.js:171-176: the selectedEvent the handler leaves, from the one it
\* closed over (closed) and the one of the state (current)
syncSelectedEvent(closed, current, eventId, createdComment) ==
    IF closed # Null /\ closed.id = eventId
    THEN Spread(closed, "comentarios",
                Append(comentariosOrEmpty(closed), createdComment))
    ELSE current

\* App.js:151-183: the POST answers 2xx with the created comment
handleSubmitNewCommentResolved ==
    \E i \in DOMAIN inflight :
        LET req == inflight[i]
            createdComment == Spread(req.body, "id", Id(server.comments + 1))
        IN  /\ req.kind = "POST comentarios"
            /\ events' = appendComment(req.events, req.eventId, createdComment)
            /\ selectedEvent' = syncSelectedEvent(req.selectedEvent,
                                    selectedEvent, req.eventId, createdComment)
            /\ showNewCommentForm' = Null
            /\ newComment' = emptyNewComment
            /\ inflight' = Remove(inflight, i)
            /\ server' = [server EXCEPT !.comments = @ + 1]
            /\ last' = [op |-> "handleSubmitNewComment", ok |-> TRUE,
                        req |-> req, created |-> createdComment]
            /\ UNCHANGED << loading, error, expandedEventId, searchTerm,
                            dateFilter, showNewEventForm, newEvent >>

\* App.js:151-153, 184-186
handleSubmitNewCommentCatch ==
    \E i \in DOMAIN inflight, message \in Thrown(FailedToCreateComment) :
        /\ inflight[i].kind = "POST comentarios"
        /\ error' = message
        /\ inflight' = Remove(inflight, i)
        /\ last' = [op |-> "handleSubmitNewComment", ok |-> FALSE,
                    req |-> inflight[i]]
        /\ UNCHANGED << events, selectedEvent, loading, expandedEventId,
                        searchTerm, dateFilter, showNewEventForm,
                        showNewCommentForm, newEvent, newComment, server >>

-----------------------------------------------------------------------------
(* The application *)

\* GET /eventos answers with up to MaxFetched events, each with its
\* comentarios (empty) or without the property
AppEvent(n) == [id |-> Id(n), nome |-> << "a" >>]

AppPayloads ==
    UNION {[1..k -> BOOLEAN] : k \in 0..MaxFetched}

AppEventsData ==
    {[j \in DOMAIN p |-> IF p[j] THEN Spread(AppEvent(j), "comentarios", << >>)
                         ELSE AppEvent(j)] : p \in AppPayloads}

fetchDataApp == fetchDataResolved(AppEventsData)

Next ==
    \/ fetchDataApp
    \/ fetchDataCatch
    \/ toggleEvent
    \/ openNewEventForm
    \/ cancelNewEventForm
    \/ setNewEvent
    \/ handleSubmitNewEvent
    \/ handleSubmitNewEventResolved
    \/ handleSubmitNewEventCatch
    \/ openNewCommentForm
    \/ cancelNewCommentForm
    \/ setNewComment
    \/ handleSubmitNewComment
    \/ handleSubmitNewCommentResolved
    \/ handleSubmitNewCommentCatch

Spec == Init /\ [][Next]_vars

-----------------------------------------------------------------------------
(* The search run: what filteredEvents keeps *)

AllLists(S, n) == UNION {[1..k -> S] : k \in 0..n}

\* the events of a payload carry the ids 1, 2, ... in its order
WithIds(list) == [j \in DOMAIN list |-> Spread(list[j], "id", Id(j))]

Names == Strings(Chars, MaxNameLen)

\* one event with any name, with the empty name or with no name, and with a
\* date or with none
OneNamedEvent ==
    LET named == {[nome |-> n] : n \in Names} \cup {[other |-> TRUE]}
    IN  {<< e >> : e \in named \cup {Spread(e, "data", << MaxDay, 0 >>) : e \in named}}

\* up to MaxViewEvents events, each with a name of at most one letter or with
\* no name
ShortNamedEvent ==
    {[nome |-> n] : n \in Strings(Chars, 1)} \cup {[other |-> TRUE]}

SearchEventsData ==
    {WithIds(l) : l \in OneNamedEvent \cup AllLists(ShortNamedEvent, MaxViewEvents)}

fetchDataSearch == fetchDataResolved(SearchEventsData)

typeSearchTerm == setSearchTerm(Names)

pickDate == setDateFilter(DateInputs)

NextSearch == fetchDataSearch \/ typeSearchTerm \/ pickDate

SpecSearch == Init /\ [][NextSearch]_vars

-----------------------------------------------------------------------------
(* The date run: the date filter and the order of the table *)

\* API dates: any day, with or without a time of day
ApiDates == {<< d, t >> : d \in (0 - MaxDay)..MaxDay, t \in 0..(TicksPerDay - 1)}

DatedEvent == {[nome |-> << "a" >>, data |-> d] : d \in ApiDates}
                  \cup {[nome |-> << "a" >>]}

DatesEventsData == {WithIds(l) : l \in AllLists(DatedEvent, MaxSortEvents)}

fetchDataDates == fetchDataResolved(DatesEventsData)

NextDates == fetchDataDates \/ pickDate

SpecDates == Init /\ [][NextDates]_vars

-----------------------------------------------------------------------------
(* The rating run: calculateAverageRating *)

\* a comment with a rating of 0..MaxRating or with none
RatedComment == {[classificacao |-> r] : r \in 0..MaxRating} \cup {[other |-> TRUE]}

RatingEventsData ==
    {<< [id |-> Id(1), nome |-> << "a" >>] >>}
    \cup {<< [id |-> Id(1), nome |-> << "a" >>, comentarios |-> WithIds(c)] >> :
             c \in AllLists(RatedComment, MaxComments)}

fetchDataRating == fetchDataResolved(RatingEventsData)

NextRating == fetchDataRating \/ toggleEvent

SpecRating == Init /\ [][NextRating]_vars

-----------------------------------------------------------------------------
(* Properties of the derived values *)

\* the j-th smallest element of a set of numbers
Nth(S, j) == CHOOSE i \in S : Cardinality({k \in S : k < i}) = j - 1

\* the elements of seq at the positions in S, in the order of seq
Pick(seq, S) == [j \in 1..Cardinality(S) |-> seq[Nth(S, j)]]

\* term occurs in name when case is ignored
ContainsIgnoringCase(name, term) ==
    \E off \in 0..(Len(name) - Len(term)) :
        \A k \in 1..Len(term) : LowerChar(name[off + k]) = LowerChar(term[k])

NameMatches(event, term) ==
    \/ term = EmptyString
    \/ Has(event, "nome") /\ ContainsIgnoringCase(event.nome, term)

\* C1: with an empty dateFilter, filteredEvents holds exactly the events whose
\* name contains searchTerm, case ignored (all of them when searchTerm is
\* empty, none without a name when it is not), in the order of events.
C1_SearchFilter ==
    (View = "main" /\ dateFilter = EmptyString) =>
        /\ filteredEvents =
               Pick(events, {i \in DOMAIN events : NameMatches(events[i], searchTerm)})
        /\ searchTerm # EmptyString =>
               \A i \in DOMAIN filteredEvents : Has(filteredEvents[i], "nome")
        /\ searchTerm = EmptyString => filteredEvents = events

\* a search that keeps the second of two events and drops the first, which
\* has no name
C1_Witness ==
    /\ dateFilter = EmptyString
    /\ searchTerm = << "a" >>
    /\ Len(events) = 2
    /\ ~Has(events[1], "nome")
    /\ events[2].nome = << "A" >>
    /\ filteredEvents = << events[2] >>

\* the calendar day of a date string
CalendarDay(d) == d[1]

\* C2: with a non-empty dateFilter, an event with a date passes the date
\* check exactly when its date is on the calendar day of dateFilter, whatever
\* its time of day, and an event without a date passes.
C2_CalendarDateFilter ==
    (View = "main" /\ dateFilter # EmptyString) =>
        \A i \in DOMAIN events :
            matchesDateRange(events[i], dateFilter) <=>
                \/ ~Has(events[i], "data")
                \/ CalendarDay(events[i].data) = CalendarDay(dateFilter)

\* the position of an event in a sequence of events with distinct ids
PositionIn(seq, event) == CHOOSE i \in DOMAIN seq : seq[i].id = event.id

\* C3: sortedEvents is filteredEvents in descending order of date, every
\* event without a date after every event with one, events without a date
\* and events with equal dates in their order in filteredEvents.
C3_SortOrder ==
    View = "main" =>
        /\ Len(sortedEvents) = Len(filteredEvents)
        /\ \A i \in DOMAIN filteredEvents :
               \E j \in DOMAIN sortedEvents : sortedEvents[j] = filteredEvents[i]
        /\ \A i, j \in DOMAIN sortedEvents :
               i < j =>
                   LET a == sortedEvents[i]
                       b == sortedEvents[j]
                   IN  /\ Has(a, "data") /\ Has(b, "data") =>
                              parseISO(a.data) >= parseISO(b.data)
                       /\ ~Has(a, "data") => ~Has(b, "data")
                       /\ \/ ~Has(a, "data") /\ ~Has(b, "data")
                          \/ /\ Has(a, "data") /\ Has(b, "data")
                             /\ parseISO(a.data) = parseISO(b.data)
                          => PositionIn(filteredEvents, a)
                                 < PositionIn(filteredEvents, b)

\* the digit a character stands for
DigitValue(c) == CHOOSE n \in 0..9 : Digits[n + 1] = c

Abs(x) == IF x < 0 THEN 0 - x ELSE x

RECURSIVE RatingTotal(_)
RatingTotal(coms) ==
    IF coms = << >> THEN 0
    ELSE (IF Has(Head(coms), "classificacao") THEN Head(coms).classificacao ELSE 0)
         + RatingTotal(Tail(coms))

\* the events calculateAverageRating can be given: those of the state and
\* those of the payload as fetched
Rated ==
    {events[i] : i \in DOMAIN events}
    \cup (IF Has(last, "eventsData")
          THEN {last.eventsData[i] : i \in DOMAIN last.eventsData} ELSE {})

\* C4: calculateAverageRating gives 'N/A' exactly for an event whose comments
\* are absent or empty; otherwise it gives, with one decimal, the tenth nearest
\* to the mean of the ratings, a missing rating counting 0, which lies in
\* 0.0..5.0.
C4_AverageRating ==
    \A event \in Rated :
        LET avg == calculateAverageRating(event)
        IN  /\ avg = NotAvailable <=>
                   (~Has(event, "comentarios") \/ event.comentarios = << >>)
            /\ avg # NotAvailable =>
                   LET n == Len(event.comentarios)
                       total == RatingTotal(event.comentarios)
                       tenths == 10 * DigitValue(avg[1]) + DigitValue(avg[3])
                   IN  /\ Len(avg) = 3 /\ avg[2] = "."
                       /\ 2 * Abs(tenths * n - 10 * total) <= n
                       /\ tenths >= 0 /\ tenths <= 10 * MaxRating

\* the ratings 4 and 2 give 3.0
C4_Witness ==
    \E event \in Rated :
        /\ Has(event, "comentarios") /\ Len(event.comentarios) = 2
        /\ event.comentarios[1].classificacao = 4
        /\ event.comentarios[2].classificacao = 2
        /\ calculateAverageRating(event) = << "3", ".", "0" >>

-----------------------------------------------------------------------------
(* Properties of the application *)

CommentOk == last.op = "handleSubmitNewComment" /\ last.ok

EventOk == last.op = "handleSubmitNewEvent" /\ last.ok

Failed == Has(last, "ok") /\ ~last.ok

\* C5: the events a successful comment submission leaves are those its
\* appendComment was given (last.req.events), as many and in the same order,
\* the one event with the id of the submission with the created comment added
\* at the end of its comments and nothing else changed, every other event
\* the same.
C5_AppendCommentFrame ==
    CommentOk =>
        LET before == last.req.events
        IN  /\ DOMAIN events = DOMAIN before
            /\ Cardinality({j \in DOMAIN before : before[j].id = last.req.eventId}) = 1
            /\ \A j \in DOMAIN before :
                   IF before[j].id = last.req.eventId
                   THEN /\ events[j].comentarios =
                               before[j].comentarios \o << last.created >>
                        /\ DOMAIN events[j] = DOMAIN before[j]
                        /\ \A f \in DOMAIN before[j] \ {"comentarios"} :
                               events[j][f] = before[j][f]
                   ELSE events[j] = before[j]

\* a comment was added to the first of two events
C5_Witness ==
    /\ CommentOk
    /\ Len(events) = 2
    /\ Len(last.req.events) = 2
    /\ events[1].id = last.req.eventId
    /\ Len(events[1].comentarios) = 1
    /\ events[2] = last.req.events[2]

\* C6: every event of the collection is in the collection after the next
\* step, with every comment it had.
C6_NothingDeleted ==
    [][\A i \in DOMAIN events :
           \E j \in DOMAIN events' :
               /\ events'[j].id = events[i].id
               /\ \A k \in DOMAIN comentariosOrEmpty(events[i]) :
                      \E m \in DOMAIN comentariosOrEmpty(events'[j]) :
                          events'[j].comentarios[m] = events[i].comentarios[k]]_vars

\* C7: when the comment panel of a row is expanded, selectedEvent is the
\* event of that row with the comments the collection holds for it.
C7_SelectedInSync ==
    View = "main" =>
        \A event \in Rows :
            expandedEventId = event.id =>
                /\ selectedEvent # Null
                /\ selectedEvent.id = event.id
                /\ comentariosOrEmpty(selectedEvent) = comentariosOrEmpty(event)

Posts == {i \in DOMAIN inflight : inflight[i].kind # "GET eventos"}

\* C8: at most one create request awaits its answer.
C8_NoOverlap == Cardinality(Posts) <= 1

\* C9: every event of the collection has its comment sequence.
C9_CommentsPresent ==
    \A i \in DOMAIN events : Has(events[i], "comentarios")

\* the API created an event and answered without comentarios, and the event
\* is in the collection with no comments
C9_Witness ==
    /\ EventOk
    /\ Len(events) = 2
    /\ ~Has(last.created, "comentarios")
    /\ events[Len(events)].id = last.created.id
    /\ events[Len(events)].comentarios = << >>

\* C10: a call that fails leaves its error stored and the error view shown;
\* from then on the error stays stored, the view stays the error view and no
\* request is sent.
C10_ErrorIsFinal ==
    /\ [](Failed => (error # Null /\ View = "error"))
    /\ [][error # Null =>
              /\ error' # Null
              /\ View' = "error"
              /\ server'.posts = server.posts
              /\ Len(inflight') <= Len(inflight)]_vars

\* a create request failed while another one was awaiting its answer, which
\* then arrived and was handled with the error still stored
C10_Witness ==
    /\ error # Null
    /\ View = "error"
    /\ Has(last, "ok") /\ last.ok
    /\ last.op # "fetchData"

\* C11 as stated: one single message is ever stored, so a stored message is
\* never followed by a different one.
C11_OneMessage ==
    [][(error # Null /\ error' # Null) => error' = error]_vars

\* the message a call throws on an answer that is not 2xx
StatusMessage(kind) ==
    IF kind = "GET eventos" THEN [message |-> "Failed to fetch events"]
    ELSE IF kind = "POST eventos" THEN [message |-> "Failed to create event"]
    ELSE [message |-> "Failed to create comment"]

\* C11 as amended: the error stored by a failing call is the message of what
\* was thrown: the message of that call on an answer that is not 2xx (one per
\* call, the three differ), the message of the exception otherwise; every
\* failure is stored in the one error cell.
C11_MessageOfTheFailure ==
    /\ Failed =>
           \/ error = StatusMessage(last.req.kind)
           \/ error = [message |-> "Failed to fetch"]
    /\ Cardinality({StatusMessage(k) :
           k \in {"GET eventos", "POST eventos", "POST comentarios"}}) = 3

\* a POST comentarios was answered with a status that is not 2xx
C11_Witness ==
    /\ Failed
    /\ last.req.kind = "POST comentarios"
    /\ error = [message |-> "Failed to create comment"]

\* the step in which a create-event or create-comment request is answered
SubmissionAnswered(op) ==
    /\ Len(inflight') < Len(inflight)
    /\ last'.op = op

=============================================================================
